---- MODULE Spec2Model ----
(***************************************************************************)
(* r4::matrix3<T> (src/src/r4/matrix3.hpp): a 3x3 matrix stored as three   *)
(* column vectors c0, c1, c2.  The scalar type T is modelled by exact      *)
(* integers.  One matrix object `m` is constructed and then receives       *)
(* member-function calls; `pre` is the value of the object when the last   *)
(* call was entered, `call` names the call and its arguments and `ret` is  *)
(* what the call returned.                                                 *)
(***************************************************************************)
EXTENDS Integers, Sequences, FiniteSets

VARIABLES m, pre, call, ret, n, chain

vars == <<m, pre, call, ret, n, chain>>

(***************************************************************************)
(* Bounds of the model.                                                    *)
(***************************************************************************)
\* longest run of mutating calls after construction or after identity()
MaxChain == 2

Idx == 0 .. 2

(***************************************************************************)
(* vector3<T> and vector2<T> (vector3.hpp, vector2.hpp).                   *)
(***************************************************************************)
vector3(x, y, z) == [i \in Idx |-> IF i = 0 THEN x ELSE IF i = 1 THEN y ELSE z]

vector2(x, y) == [x |-> x, y |-> y]

\* vector3 * vector3: dot product
Dot(a, b) == a[0] * b[0] + a[1] * b[1] + a[2] * b[2]

\* vector3 * scalar and vector3 *= scalar
VMul(a, s) == [i \in Idx |-> a[i] * s]

\* vector3 + vector3
VAdd(a, b) == [i \in Idx |-> a[i] + b[i]]

\* the z a vector2 is given when it meets a vector3 in `row * vec`
ImplicitZ == {0, 1}

\* vector3 * vector2: the vector2 is widened to a vector3 with the given z
Dot2(a, v, z) == Dot(a, vector3(v.x, v.y, z))

(***************************************************************************)
(* matrix3<T>                                                              *)
(***************************************************************************)
matrix3(column0, column1, column2) == [c0 |-> column0, c1 |-> column1, c2 |-> column2]

\* operator[](col): (&this->c0)[col], col < 3
OpIndex(M, col) == IF col = 0 THEN M.c0 ELSE IF col = 1 THEN M.c1 ELSE M.c2

\* variant: row(n) hands back column n
rowAsColumn(M, rowNum) == OpIndex(M, rowNum)

row(M, rowNum) == vector3(M.c0[rowNum], M.c1[rowNum], M.c2[rowNum])

\* variant: the vector is multiplied with the columns, not the rows
MulVec3ByColumns(M, vec) == vector3(Dot(M.c0, vec), Dot(M.c1, vec), Dot(M.c2, vec))

\* operator*(const vector3&)
MulVec3(M, vec) == vector3(Dot(row(M, 0), vec), Dot(row(M, 1), vec), Dot(row(M, 2), vec))

\* operator*(const vector2&)
MulVec2(M, vec, z) == vector2(Dot2(row(M, 0), vec, z), Dot2(row(M, 1), vec, z))

\* variant: the operands change sides (rows of matr, columns of this)
OpMulSwapped(M, matr) ==
    matrix3(
        vector3(Dot(row(matr, 0), OpIndex(M, 0)), Dot(row(matr, 1), OpIndex(M, 0)), Dot(row(matr, 2), OpIndex(M, 0))),
        vector3(Dot(row(matr, 0), OpIndex(M, 1)), Dot(row(matr, 1), OpIndex(M, 1)), Dot(row(matr, 2), OpIndex(M, 1))),
        vector3(Dot(row(matr, 0), OpIndex(M, 2)), Dot(row(matr, 1), OpIndex(M, 2)), Dot(row(matr, 2), OpIndex(M, 2))))

\* operator*(const matrix3&)
OpMul(M, matr) ==
    matrix3(
        vector3(Dot(row(M, 0), OpIndex(matr, 0)), Dot(row(M, 1), OpIndex(matr, 0)), Dot(row(M, 2), OpIndex(matr, 0))),
        vector3(Dot(row(M, 0), OpIndex(matr, 1)), Dot(row(M, 1), OpIndex(matr, 1)), Dot(row(M, 2), OpIndex(matr, 1))),
        vector3(Dot(row(M, 0), OpIndex(matr, 2)), Dot(row(M, 1), OpIndex(matr, 2)), Dot(row(M, 2), OpIndex(matr, 2))))

\* std::swap(this->c<a>[i], this->c<b>[j]) for the column pair named by ca, cb
Swap(M, ca, i, cb, j) ==
    LET va == M[ca][i]
        vb == M[cb][j]
    IN  [M EXCEPT ![ca][i] = vb, ![cb][j] = va]

\* variant: the swap of c1[2] and c2[1] is missing
transposeTwoSwaps(M) == Swap(Swap(M, "c0", 1, "c1", 0), "c0", 2, "c2", 0)

transpose(M) ==
    LET s1 == Swap(M, "c0", 1, "c1", 0)
        s2 == Swap(s1, "c0", 2, "c2", 0)
    IN  Swap(s2, "c1", 2, "c2", 1)

\* variant: the product is written into this column by column, so the later
\* columns are computed from an object that is already partly overwritten
\* (and so is matr when it is the object itself)
OpMulAssignInPlace(M, matr) ==
    LET M1 == [M EXCEPT !.c0 = MulVec3(M, OpIndex(matr, 0))]
        B1 == IF matr = M THEN M1 ELSE matr
        M2 == [M1 EXCEPT !.c1 = MulVec3(M1, OpIndex(B1, 1))]
        B2 == IF matr = M THEN M2 ELSE matr
    IN  [M2 EXCEPT !.c2 = MulVec3(M2, OpIndex(B2, 2))]

\* operator*=: the product is a temporary, assigned once it is complete
OpMulAssign(M, matr) == OpMul(M, matr)

right_mul(M, matr) == OpMulAssign(M, matr)

left_mul(M, matr) == OpMul(matr, M)

\* variant: column 1 repeats column 0
identityRepeatedColumn == matrix3(vector3(1, 0, 0), vector3(1, 0, 0), vector3(0, 0, 1))

identity == matrix3(vector3(1, 0, 0), vector3(0, 1, 0), vector3(0, 0, 1))

\* variant: column 2 is scaled as well
scaleAllColumns(M, x, y) ==
    [M EXCEPT !.c0 = VMul(M.c0, x), !.c1 = VMul(M.c1, y), !.c2 = VMul(M.c2, y)]

scale(M, x, y) == [M EXCEPT !.c0 = VMul(M.c0, x), !.c1 = VMul(M.c1, y)]

scaleVec(M, s) == scale(M, s.x, s.y)

\* variant: the translation is added along the world axes
translateWorldAxes(M, x, y) == [M EXCEPT !.c2 = VAdd(M.c2, vector3(x, y, 0))]

\* variant: the old column 2 is not added
translateDropsColumn2(M, x, y) == [M EXCEPT !.c2 = VAdd(VMul(M.c0, x), VMul(M.c1, y))]

translate(M, x, y) == [M EXCEPT !.c2 = VAdd(VAdd(VMul(M.c0, x), VMul(M.c1, y)), M.c2)]

translateVec(M, t) == translate(M, t.x, t.y)

(***************************************************************************)
(* scale(T s) forwards to this->scale(s, s, s).  The call is resolved      *)
(* among the scale members the class declares.                             *)
(***************************************************************************)
\* parameter lists of the declared scale members: scale(T, T), scale(T), scale(const vector2&)
ScaleOverloads == {<<"T", "T">>, <<"T">>, <<"vector2">>}

\* the declared overloads that accept the given argument list
Viable(args) == {o \in ScaleOverloads : Len(o) = Len(args)}

\* the argument list of the call in the body of scale(T s)
ScaleUniformArgs == <<"T", "T", "T">>

(***************************************************************************)
(* Arguments of the calls.                                                 *)
(***************************************************************************)
\* columns handed to the three-column constructor
Cols == {vector3(1, 0, 0), vector3(0, 1, 0), vector3(1, 0 - 1, 2), vector3(0 - 2, 1, 1)}

\* right-hand matrices
ArgMats ==
    {matrix3(vector3(0, 1, 0), vector3(1, 0, 0), vector3(0, 0, 1)),
     matrix3(vector3(1, 2, 0), vector3(0 - 1, 1, 3), vector3(2, 0, 1)),
     matrix3(vector3(2, 0, 0), vector3(0, 2, 0), vector3(5, 5, 1))}

Vec3s == {vector3(0, 0, 1), vector3(1, 0, 0), vector3(2, 0 - 1, 3), vector3(0 - 1, 4, 1)}

\* (x, y) arguments of scale and translate
Pairs == {<<1, 0>>, <<0, 1>>, <<2, 2>>, <<5, 5>>, <<0 - 1, 3>>, <<0, 0>>, <<3, 0 - 2>>}

\* s arguments of scale(T s)
Scalars == {0 - 1, 2}

Vec2s == {vector2(2, 2), vector2(0 - 1, 3)}

NoRet == [none |-> TRUE]

\* the matrix S of "M = M * S" in the comment of scale(T x, T y)
ScaleMat(x, y) == matrix3(vector3(x, 0, 0), vector3(0, y, 0), vector3(0, 0, 1))

\* the matrix T of "M = M * T" in the comment of translate(T x, T y)
TranslateMat(x, y) == matrix3(vector3(1, 0, 0), vector3(0, 1, 0), vector3(x, y, 1))

\* chain.valid: only scale and translate were called since the last identity();
\* chain.calls: those calls, in call order
NoChain == [valid |-> FALSE, calls |-> <<>>]

(***************************************************************************)
(* Construction: matrix3(column0, column1, column2).                       *)
(***************************************************************************)
Init ==
    /\ \E column0 \in Cols, column1 \in Cols, column2 \in Cols :
           m = matrix3(column0, column1, column2)
    /\ pre = m
    /\ call = [op |-> "matrix3"]
    /\ ret = NoRet
    /\ n = 0
    /\ chain = NoChain

(***************************************************************************)
(* Mutating member functions.  Each returns *this.                         *)
(***************************************************************************)
\* a run of scale/translate calls begun by identity() is followed for MaxChain
\* calls, any other mutating call for one call
Budget == IF chain.valid THEN MaxChain ELSE 1

Mutate(new, c) ==
    /\ n < Budget
    /\ n' = n + 1
    /\ pre' = m
    /\ m' = new
    /\ call' = c
    /\ ret' = new

Identity ==
    /\ pre' = m
    /\ m' = identity
    /\ call' = [op |-> "identity"]
    /\ ret' = identity
    /\ n' = 0
    /\ chain' = [valid |-> TRUE, calls |-> <<>>]

Transpose ==
    /\ Mutate(transpose(m), [op |-> "transpose"])
    /\ chain' = NoChain

OpMulAssignCall ==
    \E matr \in ArgMats \cup {m} :
        LET alias == (matr = m)
        IN  /\ Mutate(OpMulAssign(m, matr), [op |-> "operator*=", matr |-> matr, alias |-> alias])
            /\ chain' = NoChain

RightMul ==
    \E matr \in ArgMats \cup {m} :
        LET alias == (matr = m)
        IN  /\ Mutate(right_mul(m, matr), [op |-> "right_mul", matr |-> matr, alias |-> alias])
            /\ chain' = NoChain

LeftMul ==
    \E matr \in ArgMats \cup {m} :
        LET alias == (matr = m)
        IN  /\ Mutate(left_mul(m, matr), [op |-> "left_mul", matr |-> matr, alias |-> alias])
            /\ chain' = NoChain

Extend(c) == IF chain.valid THEN [chain EXCEPT !.calls = Append(@, c)] ELSE chain

Scale ==
    \E p \in Pairs :
        LET x == p[1]
            y == p[2]
        IN  /\ Mutate(scale(m, x, y), [op |-> "scale", x |-> x, y |-> y])
            /\ chain' = Extend([op |-> "scale", x |-> x, y |-> y])

ScaleVec ==
    \E s \in Vec2s :
        /\ Mutate(scaleVec(m, s), [op |-> "scale_vector2", x |-> s.x, y |-> s.y])
        /\ chain' = Extend([op |-> "scale", x |-> s.x, y |-> s.y])

Translate ==
    \E p \in Pairs :
        LET x == p[1]
            y == p[2]
        IN  /\ Mutate(translate(m, x, y), [op |-> "translate", x |-> x, y |-> y])
            /\ chain' = Extend([op |-> "translate", x |-> x, y |-> y])

TranslateVec ==
    \E t \in Vec2s :
        /\ Mutate(translateVec(m, t), [op |-> "translate_vector2", x |-> t.x, y |-> t.y])
        /\ chain' = Extend([op |-> "translate", x |-> t.x, y |-> t.y])

\* scale(T s): no declared overload takes three arguments, so the call in its
\* body does not resolve and no code exists for it; the object is not touched.
ScaleUniform ==
    \E s \in Scalars :
        /\ pre' = m
        /\ call' = [op |-> "scale_uniform", s |-> s, resolved |-> Viable(ScaleUniformArgs) # {}]
        /\ ret' = NoRet
        /\ UNCHANGED <<m, n, chain>>

(***************************************************************************)
(* Const member functions.                                                 *)
(***************************************************************************)
Query(c, r) ==
    /\ pre' = m
    /\ call' = c
    /\ ret' = r
    /\ UNCHANGED <<m, n, chain>>

OpMulCall ==
    \E matr \in ArgMats \cup {m} :
        LET alias == (matr = m)
        IN  Query([op |-> "operator*", matr |-> matr, alias |-> alias], OpMul(m, matr))

MulVec3Call ==
    \E vec \in Vec3s : Query([op |-> "operator*_vector3", vec |-> vec], MulVec3(m, vec))

MulVec2Call ==
    \E vec \in Vec2s, z \in ImplicitZ :
        Query([op |-> "operator*_vector2", vec |-> vec, z |-> z], MulVec2(m, vec, z))

RowCall ==
    \E rowNum \in Idx : Query([op |-> "row", rowNum |-> rowNum], row(m, rowNum))

OpIndexCall ==
    \E col \in Idx : Query([op |-> "operator[]", col |-> col], OpIndex(m, col))

Next ==
    \/ Identity
    \/ Transpose
    \/ OpMulAssignCall
    \/ RightMul
    \/ LeftMul
    \/ Scale
    \/ ScaleVec
    \/ ScaleUniform
    \/ Translate
    \/ TranslateVec
    \/ OpMulCall
    \/ MulVec3Call
    \/ MulVec2Call
    \/ RowCall
    \/ OpIndexCall

Spec == Init /\ [][Next]_vars

TypeOK == n \in 0 .. MaxChain

(***************************************************************************)
(* Vocabulary of the properties.                                           *)
(***************************************************************************)
\* element of column k, row i: M[k][i]
At(M, k, i) == OpIndex(M, k)[i]

\* the standard algebraic product A B, element by element
Product(A, B) ==
    LET col(k) == [i \in Idx |-> At(A, 0, i) * At(B, k, 0) + At(A, 1, i) * At(B, k, 1) + At(A, 2, i) * At(B, k, 2)]
    IN  matrix3(col(0), col(1), col(2))

ElemMat(c) == IF c.op = "scale" THEN ScaleMat(c.x, c.y) ELSE TranslateMat(c.x, c.y)

\* ((identity * E1) * E2) * ... for the calls of a chain, with operator*
RECURSIVE ChainProd(_)
ChainProd(calls) ==
    IF calls = <<>>
    THEN identity
    ELSE OpMul(ChainProd(SubSeq(calls, 1, Len(calls) - 1)), ElemMat(calls[Len(calls)]))

IsCall(name) == call.op = name

ScaleCalled == IsCall("scale") \/ IsCall("scale_vector2")

TranslateCalled == IsCall("translate") \/ IsCall("translate_vector2")

T(x, y) == [op |-> "translate", x |-> x, y |-> y]

S(x, y) == [op |-> "scale", x |-> x, y |-> y]

\* the object was built by identity() followed by exactly the given calls
BuiltBy(calls) == chain.valid /\ chain.calls = calls

(***************************************************************************)
(* C1: operator*(A, B) is the standard algebraic product: element [k][i]   *)
(* of the result is the dot product of row i of A with column k of B,      *)
(* column k of the result is A applied to column k of B by the vector3     *)
(* overload, and the call modifies neither A nor B.                        *)
(***************************************************************************)
C1_ProductIsAlgebraic ==
    IsCall("operator*") =>
        /\ \A k \in Idx, i \in Idx :
               At(ret, k, i) = At(pre, 0, i) * At(call.matr, k, 0)
                             + At(pre, 1, i) * At(call.matr, k, 1)
                             + At(pre, 2, i) * At(call.matr, k, 2)
        /\ \A k \in Idx : OpIndex(ret, k) = MulVec3(pre, OpIndex(call.matr, k))
        /\ m = pre
        /\ call.alias => call.matr = m

C1_Witness ==
    /\ IsCall("operator*")
    /\ ~call.alias
    /\ ret # pre
    /\ ret # call.matr
    /\ \A k \in Idx : \E i \in Idx : At(ret, k, i) # 0

(***************************************************************************)
(* C2: right_mul(B) and operator*=(B) leave old A * B in A and agree with  *)
(* each other, left_mul(B) leaves B * old A, also when B is A itself, and  *)
(* for non-commuting A and B the two sides give different results.         *)
(***************************************************************************)
C2_RightLeftMul ==
    /\ IsCall("right_mul") =>
           /\ m = Product(pre, call.matr)
           /\ m = OpMulAssign(pre, call.matr)
           /\ call.alias => m = Product(pre, pre)
           /\ Product(pre, call.matr) # Product(call.matr, pre) => m # left_mul(pre, call.matr)
    /\ IsCall("operator*=") =>
           /\ m = Product(pre, call.matr)
           /\ m = right_mul(pre, call.matr)
    /\ IsCall("left_mul") =>
           /\ m = Product(call.matr, pre)
           /\ call.alias => m = Product(pre, pre)
           /\ Product(pre, call.matr) # Product(call.matr, pre) => m # right_mul(pre, call.matr)

C2_Witness ==
    /\ IsCall("left_mul")
    /\ ~call.alias
    /\ Product(pre, call.matr) # Product(call.matr, pre)
    /\ m # pre

(***************************************************************************)
(* C3: scale(x, y) gives M * S and translate(x, y) gives M * T for the     *)
(* elementary matrices S and T, so a chain of scale/translate calls on     *)
(* identity() is the product of the elementary matrices in call order.     *)
(***************************************************************************)
C3_BuildersRightMultiply ==
    /\ IsCall("scale") => m = OpMul(pre, ScaleMat(call.x, call.y))
    /\ IsCall("translate") => m = OpMul(pre, TranslateMat(call.x, call.y))
    /\ chain.valid => m = ChainProd(chain.calls)

C3_Witness ==
    /\ IsCall("translate")
    /\ chain.valid
    /\ Len(chain.calls) = 2
    /\ chain.calls[1].op = "scale"
    /\ m.c2 # pre.c2
    /\ m.c2 # VAdd(pre.c2, vector3(call.x, call.y, 0))

(***************************************************************************)
(* C4: scale(x, y) and scale(vector2) multiply column 0 by x and column 1  *)
(* by y and leave column 2 unchanged; identity().translate(5,5).scale(2,2) *)
(* applied to vector3(0,0,1) yields (5,5,1).                               *)
(***************************************************************************)
C4_ScaleKeepsColumn2 ==
    /\ ScaleCalled =>
           /\ \A i \in Idx : m.c0[i] = pre.c0[i] * call.x
           /\ \A i \in Idx : m.c1[i] = pre.c1[i] * call.y
           /\ \A i \in Idx : m.c2[i] = pre.c2[i]
    /\ (BuiltBy(<<T(5, 5), S(2, 2)>>) /\ IsCall("operator*_vector3") /\ call.vec = vector3(0, 0, 1))
           => ret = vector3(5, 5, 1)

C4_Witness ==
    /\ BuiltBy(<<T(5, 5), S(2, 2)>>)
    /\ IsCall("operator*_vector3")
    /\ call.vec = vector3(0, 0, 1)
    /\ m.c0 = vector3(2, 0, 0)

(***************************************************************************)
(* C5: translate(x, y) replaces column 2 by c0*x + c1*y + c2 and leaves    *)
(* columns 0 and 1 alone, so translate(a,b).translate(c,d) equals          *)
(* translate(a+c, b+d), and identity().translate(1,0).translate(0,1)       *)
(* applied to vector3(0,0,1) yields (1,1,1).                               *)
(***************************************************************************)
C5_TranslateAccumulates ==
    /\ TranslateCalled =>
           /\ \A i \in Idx : m.c2[i] = pre.c0[i] * call.x + pre.c1[i] * call.y + pre.c2[i]
           /\ m.c0 = pre.c0
           /\ m.c1 = pre.c1
           /\ \A p \in Pairs : translate(m, p[1], p[2]) = translate(pre, call.x + p[1], call.y + p[2])
    /\ (chain.valid /\ Len(chain.calls) = 2 /\ \A j \in 1 .. 2 : chain.calls[j].op = "translate")
           => m = translate(identity, chain.calls[1].x + chain.calls[2].x, chain.calls[1].y + chain.calls[2].y)
    /\ (BuiltBy(<<T(1, 0), T(0, 1)>>) /\ IsCall("operator*_vector3") /\ call.vec = vector3(0, 0, 1))
           => ret = vector3(1, 1, 1)

C5_Witness ==
    /\ BuiltBy(<<T(1, 0), T(0, 1)>>)
    /\ IsCall("operator*_vector3")
    /\ call.vec = vector3(0, 0, 1)
    /\ m.c2 = vector3(1, 1, 1)

(***************************************************************************)
(* C6: after identity() the columns are (1,0,0), (0,1,0), (0,0,1) whatever *)
(* the matrix held before, and M * v = v for the vector3 and the vector2   *)
(* overload.                                                               *)
(***************************************************************************)
C6_IdentityLaw ==
    /\ IsCall("identity") =>
           /\ \A k \in Idx, i \in Idx : At(m, k, i) = IF k = i THEN 1 ELSE 0
           /\ \A v \in Vec3s : MulVec3(m, v) = v
           /\ \A v \in Vec2s, z \in ImplicitZ : MulVec2(m, v, z) = v
    /\ (BuiltBy(<<>>) /\ IsCall("operator*_vector3")) => ret = call.vec
    /\ (BuiltBy(<<>>) /\ IsCall("operator*_vector2")) => ret = call.vec

C6_Witness ==
    /\ BuiltBy(<<>>)
    /\ IsCall("operator*_vector2")
    /\ call.vec = vector2(0 - 1, 3)
    /\ ret = vector2(0 - 1, 3)

(***************************************************************************)
(* C7: transpose() makes element [i][j] the old element [j][i], leaves the *)
(* diagonal unchanged, and applied twice restores the matrix.              *)
(***************************************************************************)
C7_TransposeInvolution ==
    IsCall("transpose") =>
        /\ \A i \in Idx, j \in Idx : At(m, i, j) = At(pre, j, i)
        /\ \A i \in Idx : At(m, i, i) = At(pre, i, i)
        /\ transpose(m) = pre

C7_Witness ==
    /\ IsCall("transpose")
    /\ At(pre, 0, 1) # At(pre, 1, 0)
    /\ At(pre, 0, 2) # At(pre, 2, 0)
    /\ At(pre, 1, 2) # At(pre, 2, 1)
    /\ m # pre

(***************************************************************************)
(* C8: (A * B) * v = A * (B * v) for every vector3 v.                      *)
(***************************************************************************)
C8_ProductActsAsComposition ==
    IsCall("operator*") =>
        \A v \in Vec3s : MulVec3(ret, v) = MulVec3(pre, MulVec3(call.matr, v))

C8_Witness ==
    /\ IsCall("operator*")
    /\ \E v \in Vec3s :
           /\ MulVec3(ret, v) # MulVec3(call.matr, MulVec3(pre, v))
           /\ MulVec3(ret, v) # v
           /\ MulVec3(call.matr, v) # v

(***************************************************************************)
(* C9: row(n) returns a copy whose component j is component n of column j  *)
(* and does not modify the matrix; the k-th components of row(0), row(1),  *)
(* row(2) make up column k as operator[](k) returns it.                    *)
(***************************************************************************)
C9_RowColumnConsistent ==
    /\ \A k \in Idx : vector3(row(m, 0)[k], row(m, 1)[k], row(m, 2)[k]) = OpIndex(m, k)
    /\ IsCall("row") =>
           /\ \A j \in Idx : ret[j] = At(pre, j, call.rowNum)
           /\ m = pre
    /\ IsCall("operator[]") =>
           /\ \A i \in Idx : ret[i] = row(pre, i)[call.col]
           /\ m = pre

C9_Witness ==
    /\ IsCall("row")
    /\ ret # OpIndex(m, call.rowNum)
    /\ \E j \in Idx : ret[j] # 0

(***************************************************************************)
(* C10: scale(s) multiplies every one of the three columns, column 2       *)
(* included, by s.                                                         *)
(***************************************************************************)
C10_UniformScaleAllColumns ==
    IsCall("scale_uniform") =>
        /\ call.resolved
        /\ m.c0 = VMul(pre.c0, call.s)
        /\ m.c1 = VMul(pre.c1, call.s)
        /\ m.c2 = VMul(pre.c2, call.s)

====
